---- MODULE Spec2Model ----
(***************************************************************************)
(* A model of download.py: the dataset downloader.  main reads a manifest, *)
(* submits one process_item task per parsable row to a thread pool, and    *)
(* counts the outcomes.  process_item takes an ordinal from the shared     *)
(* ClassIndexer, then walks the fallback extensions: fetch (with urllib3   *)
(* retries), convert into a .part file, rename onto the final path.        *)
(*                                                                         *)
(* Text (labels, locators, file names) is a sequence of one-character      *)
(* strings; a locator also uses the word "photos" as one element, and a    *)
(* non-ASCII character is written by its name ("e_acute", "cyr_ya").       *)
(***************************************************************************)
EXTENDS Integers, Sequences, FiniteSets, TLC

\* ------------------------------------------------------------------ bounds

\* Rows of the manifests in which several tasks run side by side.
MaxRows == 2
\* Runs of the program against the same manifest and output directory.
MaxRuns == 2
\* Widest thread pool (--workers).
MaxWorkers == 2

\* ------------------------------------------------------- program constants

\* Retry(total=3, ...)
Retry_total == 3
\* status_forcelist=(429, 500, 502, 503, 504)
status_forcelist == {429, 500, 502, 503, 504}
\* fallback_exts = ["jpeg", "jpg", "png", "webp"]
fallback_exts ==
  << <<"j","p","e","g">>, <<"j","p","g">>, <<"p","n","g">>, <<"w","e","b","p">> >>

\* ------------------------------------------------------------ text helpers

Digit(d) == <<"0","1","2","3","4","5","6","7","8","9">>[d + 1]

RECURSIVE Str(_)
\* str(n) of a natural number, as the f-strings render idx.
Str(n) == IF n < 10 THEN <<Digit(n)>> ELSE Str(n \div 10) \o <<Digit(n % 10)>>

\* unicodedata.normalize("NFKD", c) of one character: an accented letter
\* decomposes into its base letter and a combining mark.
NFKD(c) ==
  CASE c = "e_acute" -> <<"e", "acute">>
    [] c = "A_acute" -> <<"A", "acute">>
    [] OTHER   -> <<c>>

\* The characters encode("ascii", "ignore") keeps.
IsAscii(c) == c \notin {"e_acute", "A_acute", "acute", "cyr_ya"}

\* str.lower() of one ASCII character.
Lower(c) ==
  CASE c = "A" -> "a"
    [] c = "B" -> "b"
    [] OTHER   -> c

\* The characters _slug_rx = [^a-z0-9_-]+ leaves in place.
SlugChar(c) == c \in {"a","b","e","j","p","g","n","w","u","k","o","m","t","0","1","2","3","4","5","6","7","8","9","_","-"}

RECURSIVE slugifyChars(_)
slugifyChars(text) ==
  IF text = <<>> THEN <<>>
  ELSE LET ascii == SelectSeq(NFKD(Head(text)), IsAscii)
           low   == [i \in 1..Len(ascii) |-> Lower(ascii[i])]
           und   == [i \in 1..Len(low) |-> IF low[i] = " " THEN "_" ELSE low[i]]
       IN  SelectSeq(und, SlugChar) \o slugifyChars(Tail(text))

\* slugify(text): normalize, drop non-ASCII, lower, spaces to "_", strip
\* everything outside [a-z0-9_-]; an empty result becomes "unknown".
slugify(text) ==
  LET s == slugifyChars(text)
  IN  IF s = <<>> THEN <<"u","n","k","n","o","w","n">> ELSE s

\* ------------------------------------------------------------------- paths

\* output_dir / f"{cls}_{idx}.jpg"
FinalName(c, i) == c \o <<"_">> \o Str(i) \o <<".","j","p","g">>

\* A .part name without the ordinal.
PartName_no_idx(c, i) == <<".">> \o c \o <<".","j","p","g",".","p","a","r","t">>

\* output_dir / f".{cls}_{idx}.jpg.part"
PartName(c, i) == <<".">> \o c \o <<"_">> \o Str(i) \o <<".","j","p","g",".","p","a","r","t">>

\* uuid.uuid4().hex: a value no other call returns.  The one drawn by
\* task t of run r for its k-th extension is rendered from r, t and k.
uuid4_hex(r, t, k) == <<"x">> \o Str(r) \o <<"x">> \o Str(t) \o <<"x">> \o Str(k)

\* output_dir / f"tmp_{num}_{uuid.uuid4().hex}.{ext}"
TmpName(n, hex, e) == <<"t","m","p","_">> \o n \o <<"_">> \o hex \o <<".">> \o e

\* ---------------------------------------------------------- the file system

\* The directory is a function from the names present to their contents.
\* A content records whether its write has finished and which run of the
\* program wrote it.
Content(w, r) == [whole |-> w, run |-> r]

Put(f, p, c) == [q \in (DOMAIN f) \cup {p} |-> IF q = p THEN c ELSE f[q]]

\* An unlink that removes nothing.
Del_keeps(f, p) == f

\* Path.unlink(missing_ok=True), and the source side of Path.replace.
Del(f, p) == [q \in (DOMAIN f) \ {p} |-> f[q]]

EmptyDir == [q \in {} |-> Content(TRUE, 0)]

\* ------------------------------------------------------------ the manifest

\* The positions of the slashes of u.
Slashes(u) == {i \in 1..Len(u) : u[i] = "/"}

\* image_url.strip("/"): u from its first to its last character that is
\* not a slash.
strip(u) ==
  LET keep == (1..Len(u)) \ Slashes(u)
  IN  IF keep = {} THEN <<>>
      ELSE SubSeq(u, CHOOSE i \in keep : \A j \in keep : i <= j,
                     CHOOSE i \in keep : \A j \in keep : j <= i)

\* u.split("/"): the segments between the slashes, empty ones included.
split(u) ==
  LET S == Slashes(u)
      cut(n) == IF n = 0 THEN 0
                ELSE IF n > Cardinality(S) THEN Len(u) + 1
                ELSE CHOOSE i \in S : Cardinality({j \in S : j < i}) = n - 1
  IN  [n \in 1..(Cardinality(S) + 1) |-> SubSeq(u, cut(n - 1) + 1, cut(n) - 1)]

\* parts.index("photos"): the first position of the segment, 0 for ValueError.
index_photos(parts) ==
  IF \E i \in 1..Len(parts) : parts[i] = <<"photos">>
  THEN CHOOSE i \in 1..Len(parts) :
         parts[i] = <<"photos">> /\ \A j \in 1..(i - 1) : parts[j] # <<"photos">>
  ELSE 0

\* A parse that catches ValueError only and takes any segment "photos".
HasNum_any_photos(image_url) == index_photos(split(strip(image_url))) # 0

\* parts = image_url.strip("/").split("/"), as the one-element set of its
\* value (a bound variable stands for a value computed once).
Parts(image_url) == {split(u) : u \in {strip(image_url)}}

\* Whether main finds an id in the locator: "photos" is a segment
\* (no ValueError) and a segment follows it (no IndexError).
HasNum(image_url) ==
  \E parts \in Parts(image_url) :
    \E i \in {index_photos(parts)} : i # 0 /\ i + 1 <= Len(parts)

\* num = parts[idx_photos + 1]
NumOf(image_url) ==
  CHOOSE n \in {parts[index_photos(parts) + 1] : parts \in Parts(image_url)} : TRUE

\* Locators of the manifests: two well-formed ones, one without the
\* "photos" segment, one that ends with it.
LocA == <<"h", "/", "photos", "/", "7", "/", "m">>
LocB == <<"/", "h", "/", "photos", "/", "8", "/">>
LocNoPhotos == <<"h", "/", "7", "/", "m">>
LocPhotosLast == <<"h", "/", "photos", "/">>

\* ---------------------------------------------------------------- the source

\* What the source answers to the consecutive HTTP attempts of one fetch of
\* one URL: a sequence of statuses whose last element repeats.  0 stands for
\* an attempt that ends in a connection error or timeout instead of a
\* response.
Scripts ==
  { <<200>>, <<404>>, <<503>>, <<0>>, <<503, 503, 200>>, <<503, 503, 503, 200>>,
    <<429, 404>>, <<0, 200>> }

Answer(script, n) == IF n <= Len(script) THEN script[n] ELSE script[Len(script)]

Exts == 1..Len(fallback_exts)

\* Sources: every extension is there, only png is, none is.
AllOk == [e \in Exts |-> <<200>>]
OnlyPng == [e \in Exts |-> IF e = 3 THEN <<200>> ELSE <<404>>]
NoneFound == [e \in Exts |-> <<404>>]

\* The rows the manifests with several rows are cut from, each with the
\* source behind its URLs: a manifest is a run of consecutive rows of the
\* catalog, taken cyclically.
Catalog ==
  << <<LocA, <<"A">>, AllOk>>,
     <<LocB, <<"A_acute">>, OnlyPng>>,
     <<LocNoPhotos, <<"a">>, AllOk>>,
     <<LocA, <<"a", "!">>, NoneFound>>,
     <<LocB, <<"cyr_ya">>, AllOk>>,
     <<LocPhotosLast, <<"B">>, AllOk>>,
     <<LocB, <<"!">>, OnlyPng>>,
     <<LocA, <<"a", " ", "1">>, AllOk>>,
     <<LocB, <<"a", "_", "1">>, AllOk>>,
     <<LocA, <<"a", " ", "1">>, NoneFound>> >>

CatalogRow(k) == Catalog[((k - 1) % Len(Catalog)) + 1]

\* The kinds of local failure an environment may produce: of fetch's file
\* write, of the decode, of im.save, of the rename, of an unlink, and an
\* exception between the attempts.
FaultKinds == {"write", "decode", "save", "rename", "unlink", "raise"}

\* ------------------------------------------------------------------- state

VARIABLES
  data,      \* main: the rows read_csv returned, <<image_url, cls>> each
  source,    \* the environment: source[t][e] is the script of row t, extension e
  workers,   \* main: args.workers
  faults,    \* the environment: the kinds of local failure that can happen
  run,       \* which run of the program against the output directory this is
  mpc,       \* main: "submit", "collect" or "reported"
  row,       \* main: the next row of data the submit loop looks at
  tasks,     \* main: the futures submitted, each named by its row
  ok,        \* main: ok
  fail,      \* main: fail
  counted,   \* main: the futures as_completed has yielded
  pc,        \* process_item: where each task stands
  idx,       \* process_item: idx, 0 before indexer.next returns
  ext,       \* process_item: position of the for loop in fallback_exts
  left,      \* urllib3: what is left of Retry.total in the current fetch, 0 outside one
  nreq,      \* history: nreq[t][e] is the number of HTTP attempts for extension e
  tmp_src,   \* process_item: tmp_src of the current attempt, <<>> outside one
  ret,       \* process_item: the pending outcome, "none", "true", "false" or "raise"
  counts,    \* ClassIndexer._counts
  lock,      \* ClassIndexer._lock: the task holding it, 0 when free
  fs         \* output_dir

vars ==
  << data, source, workers, faults, run, mpc, row, tasks, ok, fail, counted, pc, idx,
     ext, left, nreq, tmp_src, ret, counts, lock, fs >>

mainVars == << mpc, row, tasks, ok, fail, counted >>
envVars == << data, source, workers, faults, run >>

Rows == 1..Len(data)

\* The labels and the locators of the manifests.
Labels == {Catalog[k][2] : k \in DOMAIN Catalog}
Locators == {Catalog[k][1] : k \in DOMAIN Catalog}

\* slugify over the labels and num over the locators that have one, as
\* tables, so that each value is computed once.
slugs == [l \in Labels |-> slugify(l)]
nums == [u \in {v \in Locators : HasNum(v)} |-> NumOf(u)]

\* cls = slugify(cls_raw)
cls(t) == slugs[data[t][2]]

\* num, as main passes it
num(t) == nums[data[t][1]]

\* A final path that does not carry the task's ordinal.
final_path_first(t) == FinalName(cls(t), 1)

\* final_path = output_dir / f"{cls}_{idx}.jpg"
final_path(t) == FinalName(cls(t), idx[t])

\* A conversion that writes straight to the final path.
atomic_part_in_place(t) == FinalName(cls(t), idx[t])

\* atomic_part = output_dir / f".{cls}_{idx}.jpg.part"
atomic_part(t) == PartName(cls(t), idx[t])

\* The state of a fresh process: nothing submitted, an empty indexer.
Fresh ==
  /\ mpc = "submit"
  /\ row = 1
  /\ tasks = {}
  /\ ok = 0
  /\ fail = 0
  /\ counted = {}
  /\ pc = [t \in Rows |-> "idle"]
  /\ idx = [t \in Rows |-> 0]
  /\ ext = [t \in Rows |-> 0]
  /\ left = [t \in Rows |-> 0]
  /\ nreq = [t \in Rows |-> [e \in Exts |-> 0]]
  /\ tmp_src = [t \in Rows |-> <<>>]
  /\ ret = [t \in Rows |-> "none"]
  /\ counts = [c \in {} |-> 0]
  /\ lock = 0

\* One row and a sound disk; the source answers 200 or 404 at once for
\* every extension but one, which may have any script.
InitFetch ==
  /\ data = << <<LocA, <<"a", " ", "1">>>> >>
  /\ \E f \in [Exts -> Scripts] :
       /\ \E e \in Exts : \A d \in Exts \ {e} : f[d] \in {<<200>>, <<404>>}
       /\ source = <<f>>
  /\ workers = 1
  /\ faults = {}

\* One row and a disk on which local failures can happen: of one kind, of
\* im.save and of unlink, or of every kind but unlink.
InitFaulty ==
  /\ data = << <<LocB, <<"A">>>> >>
  /\ \E f \in {AllOk, OnlyPng} : source = <<f>>
  /\ workers = 1
  /\ faults \in {{k} : k \in FaultKinds}
                \cup {{"save", "unlink"}, FaultKinds \ {"unlink"}}

\* Up to MaxRows rows of the catalog, whose tasks share the pool, and a
\* sound disk.
InitRows ==
  /\ \E n \in 1..MaxRows, k \in 1..Len(Catalog) :
       /\ data = [i \in 1..n |-> <<CatalogRow(k + i - 1)[1], CatalogRow(k + i - 1)[2]>>]
       /\ source = [i \in 1..n |-> CatalogRow(k + i - 1)[3]]
  /\ workers \in 1..MaxWorkers
  /\ faults = {}

\* Two rows with different slugs in a pool of two, where an exception can
\* escape process_item between the attempts.
InitRaise ==
  /\ data = << <<LocA, <<"B">>>>, <<LocB, <<"A">>>> >>
  /\ source = <<OnlyPng, NoneFound>>
  /\ workers = 2
  /\ faults = {"raise"}

Init ==
  /\ InitFetch \/ InitFaulty \/ InitRows \/ InitRaise
  /\ run = 1
  /\ fs = EmptyDir
  /\ Fresh

\* ---------------------------------------------------------------- main

\* The submit loop, a row with an id: executor.submit(process_item, ...).
Submit ==
  /\ mpc = "submit"
  /\ row <= Len(data)
  /\ HasNum(data[row][1])
  /\ tasks' = tasks \cup {row}
  /\ pc' = [pc EXCEPT ![row] = "queued"]
  /\ row' = row + 1
  /\ UNCHANGED << envVars, mpc, ok, fail, counted, idx, ext, left, nreq, tmp_src,
                  ret, counts, lock, fs >>

\* The submit loop, a row without one: continue.
Skip ==
  /\ mpc = "submit"
  /\ row <= Len(data)
  /\ ~HasNum(data[row][1])
  /\ row' = row + 1
  /\ UNCHANGED << envVars, mpc, tasks, ok, fail, counted, pc, idx, ext, left, nreq,
                  tmp_src, ret, counts, lock, fs >>

\* The submit loop is over: ok, fail = 0, 0 and as_completed starts.
BeginCollect ==
  /\ mpc = "submit"
  /\ row > Len(data)
  /\ mpc' = "collect"
  /\ ok' = 0
  /\ fail' = 0
  /\ UNCHANGED << envVars, row, tasks, counted, pc, idx, ext, left, nreq, tmp_src,
                  ret, counts, lock, fs >>

\* An as_completed that yields a future as soon as it has been submitted.
Done_submitted(t) == pc[t] # "idle"

\* fut.done(): process_item has returned or raised.
Done(t) == pc[t] = "done"

\* A loop without the except clause around fut.result().
Failed_only_false(r) == r = "false"

\* The futures the loop counts as failed: fut.result() is False, or it
\* raises what process_item raised (except Exception: fail += 1).
Failed(r) == r # "true"

\* as_completed yields a finished future; fut.result() is True, False or raises.
Collect(t) ==
  /\ mpc = "collect"
  /\ t \in tasks \ counted
  /\ Done(t)
  /\ counted' = counted \cup {t}
  /\ ok' = IF ret[t] = "true" THEN ok + 1 ELSE ok
  /\ fail' = IF Failed(ret[t]) THEN fail + 1 ELSE fail
  /\ UNCHANGED << envVars, mpc, row, tasks, pc, idx, ext, left, nreq, tmp_src,
                  ret, counts, lock, fs >>

\* Every future has been yielded; the with block ends and main prints.
Report ==
  /\ mpc = "collect"
  /\ counted = tasks
  /\ mpc' = "reported"
  /\ UNCHANGED << envVars, row, tasks, ok, fail, counted, pc, idx, ext, left, nreq,
                  tmp_src, ret, counts, lock, fs >>

\* The program is run again on the same manifest and output directory:
\* a new process, a new ClassIndexer(), the directory as the last run left it.
Rerun ==
  /\ mpc = "reported"
  /\ run < MaxRuns
  /\ run' = run + 1
  /\ mpc' = "submit"
  /\ row' = 1
  /\ tasks' = {}
  /\ ok' = 0
  /\ fail' = 0
  /\ counted' = {}
  /\ pc' = [t \in Rows |-> "idle"]
  /\ idx' = [t \in Rows |-> 0]
  /\ ext' = [t \in Rows |-> 0]
  /\ left' = [t \in Rows |-> 0]
  /\ nreq' = [t \in Rows |-> [e \in Exts |-> 0]]
  /\ tmp_src' = [t \in Rows |-> <<>>]
  /\ ret' = [t \in Rows |-> "none"]
  /\ counts' = [c \in {} |-> 0]
  /\ lock' = 0
  /\ UNCHANGED << data, source, workers, faults, fs >>

\* ------------------------------------------------------------ ClassIndexer

\* A ClassIndexer.next without the lock: a task enters whoever holds it.
LockFree_unguarded == TRUE

\* threading.Lock: free to take.
LockFree == lock = 0

\* A defaultdict whose missing keys read 1 instead of 0.
Count_from_one(c) == IF c \in DOMAIN counts THEN counts[c] ELSE 1

\* A ClassIndexer that keeps one counter for all the classes.
Count_shared(c) ==
  IF DOMAIN counts = {} THEN 0
  ELSE CHOOSE n \in {counts[d] : d \in DOMAIN counts} :
         \A d \in DOMAIN counts : counts[d] <= n

\* self._counts[cls] of the defaultdict(int).
Count(c) == IF c \in DOMAIN counts THEN counts[c] ELSE 0

\* A pool whose threads do not come back after a task.
Running_never_freed == {t \in tasks : pc[t] # "queued"}

\* The pool's threads that are busy with a task.
Running == {t \in tasks : pc[t] \notin {"queued", "done"}}

\* A free pool thread takes the oldest queued work item and enters process_item.
Start(t) ==
  /\ pc[t] = "queued"
  /\ \A u \in tasks : pc[u] = "queued" => t <= u
  /\ Cardinality(Running) < workers
  /\ pc' = [pc EXCEPT ![t] = "lock"]
  /\ UNCHANGED << envVars, mainVars, idx, ext, left, nreq, tmp_src, ret, counts, lock, fs >>

\* indexer.next: with self._lock
Acquire(t) ==
  /\ pc[t] = "lock"
  /\ LockFree
  /\ lock' = t
  /\ pc' = [pc EXCEPT ![t] = "incr"]
  /\ UNCHANGED << envVars, mainVars, idx, ext, left, nreq, tmp_src, ret, counts, fs >>

\* indexer.next: self._counts[cls] += 1
Incr(t) ==
  /\ pc[t] = "incr"
  /\ counts' = Put(counts, cls(t), Count(cls(t)) + 1)
  /\ pc' = [pc EXCEPT ![t] = "ret"]
  /\ UNCHANGED << envVars, mainVars, idx, ext, left, nreq, tmp_src, ret, lock, fs >>

\* A next that returns without leaving the with block.
Released_kept(t) == t

\* The holder of the lock once task t has left the with block: nobody.
Released(t) == 0

\* indexer.next: return self._counts[cls], leaving the with block; then
\* process_item builds its paths and enters the for loop.
Return(t) ==
  /\ pc[t] = "ret"
  /\ idx' = [idx EXCEPT ![t] = Count(cls(t))]
  /\ lock' = Released(t)
  /\ ext' = [ext EXCEPT ![t] = 1]
  /\ pc' = [pc EXCEPT ![t] = "loop"]
  /\ UNCHANGED << envVars, mainVars, left, nreq, tmp_src, ret, 
                  counts, fs >>

\* ------------------------------------------------------------------- fetch

\* A Retry without status_forcelist: only connection errors are retried.
IsRetry_connection_only(r) == r = 0

\* A Retry that takes every error status for a transient one.
IsRetry_any_error(r) == r = 0 \/ r >= 400

\* urllib3 retries the GET after a connection error or timeout, and after a
\* response whose status is in status_forcelist (Retry.is_retry).
IsRetry(r) == r = 0 \/ r \in status_forcelist

\* A Retry that allows one attempt more.
Exhausted_late(l) == l < -1

\* Retry.is_exhausted, of the total left once increment() has taken one off.
Exhausted(l) == l < 0

\* A fetch without r.raise_for_status().
RaisesForStatus_never(r) == FALSE

\* r.raise_for_status() raises HTTPError for a 4xx or 5xx status.
RaisesForStatus(r) == 400 <= r /\ r < 600

\* Whether the attempt that got r ends the fetch with an exception: a
\* connection error with the retries used up, or a status raise_for_status
\* rejects (raise_on_status=False hands the last response back).
FetchRaises(r) == r = 0 \/ RaisesForStatus(r)

\* ------------------------------------------------------------ process_item

\* tmp_dl(ext), for the k-th extension of the list
tmp_dl(t, k) == TmpName(num(t), uuid4_hex(run, t, k), fallback_exts[k])

\* for ext in fallback_exts: the next extension, tmp_src = tmp_dl(ext); or
\* the list is used up and the function returns False.
NextExt(t) ==
  /\ pc[t] = "loop"
  /\ IF ext[t] > Len(fallback_exts)
     THEN /\ ret' = [ret EXCEPT ![t] = "false"]
          /\ pc' = [pc EXCEPT ![t] = "cleanup"]
          /\ UNCHANGED << tmp_src, left >>
     ELSE /\ tmp_src' = [tmp_src EXCEPT ![t] = tmp_dl(t, ext[t])]
          /\ left' = [left EXCEPT ![t] = Retry_total]
          /\ pc' = [pc EXCEPT ![t] = "get"]
          /\ UNCHANGED ret
  /\ UNCHANGED << envVars, mainVars, idx, ext, nreq, counts, lock, fs >>

\* An exception raised between the attempts, outside the inner try (for
\* example MemoryError in tmp_dl): the outer finally runs and it propagates.
Fault(t) ==
  /\ pc[t] = "loop"
  /\ ext[t] <= Len(fallback_exts)
  /\ "raise" \in faults
  /\ ret' = [ret EXCEPT ![t] = "raise"]
  /\ pc' = [pc EXCEPT ![t] = "cleanup"]
  /\ UNCHANGED << envVars, mainVars, idx, ext, left, nreq, tmp_src, counts,
                  lock, fs >>

\* fetch: one HTTP attempt of get_session().get.  A retryable answer with
\* retries left is followed by another attempt; otherwise the fetch ends:
\* with an exception, or with open(out_file, "wb") and f.write(r.content),
\* which may fail before the file exists or leave it half written.
Get(t) ==
  /\ pc[t] = "get"
  /\ LET e == ext[t]
         r == Answer(source[t][e], nreq[t][e] + 1)
     IN  /\ nreq' = [nreq EXCEPT ![t][e] = @ + 1]
         /\ IF IsRetry(r) /\ ~Exhausted(left[t] - 1)
            THEN /\ left' = [left EXCEPT ![t] = @ - 1]
                 /\ UNCHANGED << pc, fs >>
            ELSE IF FetchRaises(r)
            THEN /\ pc' = [pc EXCEPT ![t] = "unlink"]
                 /\ left' = [left EXCEPT ![t] = 0]
                 /\ UNCHANGED fs
            ELSE /\ left' = [left EXCEPT ![t] = 0]
                 /\ \E w \in {"written", "half", "none"} :
                      /\ w = "written" \/ "write" \in faults
                      /\ fs' = IF w = "none" THEN fs
                               ELSE Put(fs, tmp_src[t], Content(w = "written", run))
                      /\ pc' = [pc EXCEPT ![t] = IF w = "written" THEN "convert" ELSE "unlink"]
  /\ UNCHANGED << envVars, mainVars, idx, ext, tmp_src, ret, counts, lock >>

\* convert_to_jpg: Image.open and im.convert decode the download, then
\* im.save opens dst_atomic for writing.  Either may raise.
Convert(t) ==
  /\ pc[t] = "convert"
  /\ \E o \in {"opened", "error"} :
       /\ o = "opened" \/ "decode" \in faults
       /\ fs' = IF o = "opened" THEN Put(fs, atomic_part(t), Content(FALSE, run)) ELSE fs
       /\ pc' = [pc EXCEPT ![t] = IF o = "opened" THEN "saving" ELSE "unlink"]
  /\ UNCHANGED << envVars, mainVars, idx, ext, left, nreq, tmp_src, ret,
                  counts, lock >>

\* A convert_to_jpg that swallows the exception of im.save: the rename follows.
AfterSave_swallow(o) == "rename"

\* Where process_item goes on after convert_to_jpg: to the rename when
\* im.save returned, to the handlers when it raised.
AfterSave(o) == IF o = "saved" THEN "rename" ELSE "unlink"

\* convert_to_jpg: im.save writes the JPEG.  It finishes, or raises with
\* the file half written, or raises and Pillow removes the file.
Saving(t) ==
  /\ pc[t] = "saving"
  /\ \E o \in {"saved", "half", "removed"} :
       /\ o = "saved" \/ "save" \in faults
       /\ fs' = CASE o = "saved" -> Put(fs, atomic_part(t), Content(TRUE, run))
                  [] o = "half" -> fs
                  [] o = "removed" -> Del(fs, atomic_part(t))
       /\ pc' = [pc EXCEPT ![t] = AfterSave(o)]
  /\ UNCHANGED << envVars, mainVars, idx, ext, left, nreq, tmp_src, ret,
                  counts, lock >>

\* Path.replace: dst takes the content of src and src is gone, in one step.
Replace(f, src, dst) == Put(Del(f, src), dst, f[src])

\* atomic_part.replace(final_path); return True.  The rename may raise.
Rename(t) ==
  /\ pc[t] = "rename"
  /\ \E o \in BOOLEAN :
       /\ o \/ "rename" \in faults
       /\ fs' = IF o THEN Replace(fs, atomic_part(t), final_path(t)) ELSE fs
       /\ ret' = [ret EXCEPT ![t] = IF o THEN "true" ELSE @]
  /\ pc' = [pc EXCEPT ![t] = "unlink"]
  /\ UNCHANGED << envVars, mainVars, idx, ext, left, nreq, tmp_src, counts, lock >>

\* A loop that gives up after the first failed attempt.
Advance_give_up(k) == Len(fallback_exts) + 1

\* for ext in fallback_exts: after an attempt that failed, the position
\* of the next one.
Advance(k) == k + 1

\* The inner finally: tmp_src.unlink(missing_ok=True), errors swallowed.
\* Then the return goes on to the outer finally, or the loop moves on.
Unlink(t) ==
  /\ pc[t] = "unlink"
  /\ \E o \in BOOLEAN :
       /\ o \/ (tmp_src[t] \in DOMAIN fs /\ "unlink" \in faults)
       /\ fs' = IF o THEN Del(fs, tmp_src[t]) ELSE fs
  /\ tmp_src' = [tmp_src EXCEPT ![t] = <<>>]
  /\ IF ret[t] = "true"
     THEN /\ pc' = [pc EXCEPT ![t] = "cleanup"]
          /\ UNCHANGED ext
     ELSE /\ pc' = [pc EXCEPT ![t] = "loop"]
          /\ ext' = [ext EXCEPT ![t] = Advance(@)]
  /\ UNCHANGED << envVars, mainVars, idx, left, nreq, ret, counts, lock >>

\* An outer finally that unlinks the final path.
Leftover_final(t) == final_path(t)

\* An outer finally that unlinks the download instead of the .part file.
Leftover_download(t) == tmp_src[t]

\* The path the outer finally unlinks.
Leftover(t) == atomic_part(t)

\* The outer finally: atomic_part.unlink(missing_ok=True), errors swallowed;
\* process_item ends and its future is done.
Cleanup(t) ==
  /\ pc[t] = "cleanup"
  /\ \E o \in BOOLEAN :
       /\ o \/ (Leftover(t) \in DOMAIN fs /\ "unlink" \in faults)
       /\ fs' = IF o THEN Del(fs, Leftover(t)) ELSE fs
  /\ pc' = [pc EXCEPT ![t] = "done"]
  /\ UNCHANGED << envVars, mainVars, idx, ext, left, nreq, tmp_src, ret,
                  counts, lock >>

\* ------------------------------------------------------------ specification

\* Each step of a task, taken by any of them.
SomeCollect == \E t \in Rows : Collect(t)

SomeStart == \E t \in Rows : Start(t)

SomeAcquire == \E t \in Rows : Acquire(t)

SomeIncr == \E t \in Rows : Incr(t)

SomeReturn == \E t \in Rows : Return(t)

SomeNextExt == \E t \in Rows : NextExt(t)

SomeFault == \E t \in Rows : Fault(t)

SomeGet == \E t \in Rows : Get(t)

SomeConvert == \E t \in Rows : Convert(t)

SomeSaving == \E t \in Rows : Saving(t)

SomeRename == \E t \in Rows : Rename(t)

SomeUnlink == \E t \in Rows : Unlink(t)

SomeCleanup == \E t \in Rows : Cleanup(t)

Next ==
  \/ Submit
  \/ Skip
  \/ BeginCollect
  \/ Report
  \/ Rerun
  \/ SomeCollect
  \/ SomeStart
  \/ SomeAcquire
  \/ SomeIncr
  \/ SomeReturn
  \/ SomeNextExt
  \/ SomeFault
  \/ SomeGet
  \/ SomeConvert
  \/ SomeSaving
  \/ SomeRename
  \/ SomeUnlink
  \/ SomeCleanup

Spec == Init /\ [][Next]_vars

\* The steps of task t, taken by the pool thread that runs it.
Step(t) ==
  /\ t \in Rows
  /\ \/ Start(t)
     \/ Acquire(t)
     \/ Incr(t)
     \/ Return(t)
     \/ NextExt(t)
     \/ Fault(t)
     \/ Get(t)
     \/ Convert(t)
     \/ Saving(t)
     \/ Rename(t)
     \/ Unlink(t)
     \/ Cleanup(t)

\* The steps of the main thread within one run.
MainStep == Submit \/ Skip \/ BeginCollect \/ SomeCollect \/ Report

\* The threads are scheduled fairly: the main thread and every pool thread
\* with a task go on whenever they can, and a call that is under way (an
\* HTTP attempt, a decode, a save, a rename, an unlink) returns or raises.
\* Nothing obliges anybody to run the program again.
Fairness == WF_vars(MainStep) /\ \A t \in 1..MaxRows : WF_vars(Step(t))

FairSpec == Init /\ [][Next]_vars /\ Fairness

\* ------------------------------------------------------------------ claims

\* The tasks of this run that indexer.next has returned to.
Indexed == {t \in Rows : idx[t] # 0}

\* The tasks that are inside process_item.
InFlight == {t \in Rows : pc[t] \notin {"idle", "queued", "done"}}

\* The names f"{cls}_{idx}.jpg" can take in this manifest.
FinalNames == {FinalName(cls(t), i) : t \in Rows, i \in 1..Len(data)}

\* C1: under every interleaving, two tasks of one run with the same slug
\* never hold the same ordinal, and no two tasks hold the same final path.
C1_OrdinalsUnique ==
  \A t, u \in Indexed :
    t # u => /\ cls(t) = cls(u) => idx[t] # idx[u]
             /\ final_path(t) # final_path(u)

\* Two tasks with the same slug are both inside process_item with their
\* ordinals, and the row submitted later holds the lower one.
C1_Witness ==
  \E t, u \in Indexed \cap InFlight :
    t < u /\ cls(t) = cls(u) /\ idx[u] = 1 /\ idx[t] = 2

\* C2: in every state an outside reader can see, a final path is absent or
\* holds a completely written image; and the only step that changes what
\* is at a final path is a task's rename of its own, completely written,
\* .part file onto it.
C2_FinalWhole ==
  /\ [](\A p \in FinalNames \cap DOMAIN fs : fs[p].whole)
  /\ [][\A p \in FinalNames :
          (p \in DOMAIN fs) # (p \in DOMAIN fs') \/ (p \in DOMAIN fs /\ fs'[p] # fs[p])
          => \E t \in Rows :
               /\ pc[t] = "rename"
               /\ p = final_path(t)
               /\ atomic_part(t) \in DOMAIN fs
               /\ fs[atomic_part(t)].whole
               /\ p \in DOMAIN fs'
               /\ fs'[p] = fs[atomic_part(t)]
               /\ atomic_part(t) \notin DOMAIN fs']_vars

\* One task's final file is in place while another task's .part file is
\* half written.
C2_Witness ==
  \E t, u \in Rows :
    /\ t # u
    /\ pc[t] = "saving"
    /\ atomic_part(t) \in DOMAIN fs
    /\ ~fs[atomic_part(t)].whole
    /\ ret[u] = "true"
    /\ final_path(u) \in DOMAIN fs

\* The tasks submitted so far whose label normalizes to the slug c.
SameSlug(c) == {t \in tasks : cls(t) = c}

\* C3: once every one of the N tasks of a slug has its ordinal, their
\* ordinals are exactly 1..N and their final paths are N different names.
C3_OrdinalsExact ==
  \A t \in tasks :
    LET S == SameSlug(cls(t))
    IN  S \subseteq Indexed =>
          /\ {idx[u] : u \in S} = 1..Cardinality(S)
          /\ Cardinality({final_path(u) : u \in S}) = Cardinality(S)

\* Two rows with different labels and the same slug have both got their
\* ordinals while both tasks were running.
C3_Witness ==
  \E t, u \in Indexed \cap InFlight :
    /\ t # u
    /\ data[t][2] # data[u][2]
    /\ cls(t) = cls(u)
    /\ SameSlug(cls(t)) = {t, u}

\* C4: the extensions are tried in list order; a task that returns True has
\* fetched its last extension and none after it; a failed attempt, however
\* it failed, only moves the loop to the next extension; a task returns
\* False only when every extension has been fetched.
C4_FallbackChain ==
  /\ [](\A t \in Rows :
          /\ \A e \in Exts :
               nreq[t][e] > 0 => ext[t] >= e /\ \A d \in 1..(e - 1) : nreq[t][d] > 0
          /\ ret[t] = "true" =>
               /\ ext[t] \in Exts
               /\ nreq[t][ext[t]] > 0
               /\ \A d \in Exts : d > ext[t] => nreq[t][d] = 0
          /\ ret[t] = "false" => \A e \in Exts : nreq[t][e] > 0)
  /\ [][\A t \in Rows :
          /\ pc[t] \in {"get", "convert", "saving", "rename"} /\ pc'[t] # pc[t]
             => pc'[t] \in {"convert", "saving", "rename", "unlink"}
          /\ pc[t] = "unlink" /\ ret[t] # "true" /\ pc'[t] # pc[t]
             => pc'[t] = "loop" /\ ext'[t] = ext[t] + 1 /\ ret'[t] = ret[t]
          /\ pc[t] = "unlink" /\ ret[t] = "true" /\ pc'[t] # pc[t]
             => pc'[t] = "cleanup" /\ ext'[t] = ext[t]
          /\ ret[t] # "false" /\ ret'[t] = "false"
             => pc[t] = "loop" /\ ext[t] = Len(fallback_exts) + 1]_vars

\* A task has returned False although the source had every extension:
\* each of its four attempts failed locally.
C4_Witness ==
  \E t \in Rows :
    /\ pc[t] = "done"
    /\ ret[t] = "false"
    /\ source[t] = AllOk
    /\ faults = FaultKinds \ {"unlink"}

\* What is at the path p is the same before and after the step.
Untouched(p) ==
  /\ (p \in DOMAIN fs) = (p \in DOMAIN fs')
  /\ p \in DOMAIN fs => fs'[p] = fs[p]

\* C5: every step of a task other than its successful rename, the cleanup
\* of a failed task included, leaves what is at its final path as it was.
C5_FailureKeepsFinal ==
  [][\A t \in Indexed :
       /\ pc'[t] # pc[t] \/ nreq'[t] # nreq[t]
       /\ ~(pc[t] = "rename" /\ ret'[t] = "true")
       => Untouched(final_path(t))]_vars

\* A task of the second run has failed and the file the first run left
\* at its final path is still there.
C5_Witness ==
  \E t \in Indexed :
    /\ run = 2
    /\ pc[t] = "done"
    /\ ret[t] = "false"
    /\ final_path(t) \in DOMAIN fs
    /\ fs[final_path(t)] = Content(TRUE, 1)

\* C6 as stated: a later run gives its tasks names no earlier run used,
\* and leaves every final file of an earlier run as it was.
C6_RerunNewNames ==
  /\ [](\A t \in Indexed :
          final_path(t) \in DOMAIN fs => fs[final_path(t)].run = run)
  /\ [][\A p \in FinalNames \cap DOMAIN fs :
          fs[p].run < run => Untouched(p)]_vars

\* C6, amended: every run counts its ordinals from 1 again, so a later run
\* uses the names of the earlier one; a final file of an earlier run is
\* never deleted or left half written, and it changes only when a task of
\* the later run renames its completely written file onto it.
C6_RerunReplaces ==
  /\ [](\A t \in Indexed : idx[t] <= Cardinality(SameSlug(cls(t))))
  /\ [][\A p \in FinalNames \cap DOMAIN fs :
          fs[p].run < run =>
            /\ p \in DOMAIN fs'
            /\ fs'[p].whole
            /\ fs'[p] # fs[p] =>
                 \E t \in Indexed :
                   /\ pc[t] = "rename"
                   /\ ret'[t] = "true"
                   /\ p = final_path(t)
                   /\ fs'[p] = Content(TRUE, run)]_vars

\* In the second run one task has replaced the first run's file at its
\* final path, and another is about to rename onto a file of the first run.
C6_Witness ==
  \E t, u \in Indexed :
    /\ run = 2
    /\ ret[t] = "true"
    /\ fs[final_path(t)] = Content(TRUE, 2)
    /\ pc[u] = "rename"
    /\ final_path(u) \in DOMAIN fs
    /\ fs[final_path(u)] = Content(TRUE, 1)

\* The fetch of extension e has handed a response body to the caller.
Fetched(t, e) ==
  ext[t] = e /\ (pc[t] \in {"convert", "saving", "rename"} \/ ret[t] = "true")

\* The statuses of status_forcelist, as the claim lists them.
Transient == {429, 500, 502, 503, 504}

\* C7 as stated: at most 3 HTTP attempts per fetch, each but the last
\* answered with a transient status, and no success when the last allowed
\* attempt is answered with one.
C7_ThreeAttempts ==
  \A t \in Rows, e \in Exts :
    /\ nreq[t][e] <= 3
    /\ \A j \in 1..(nreq[t][e] - 1) : Answer(source[t][e], j) \in Transient
    /\ nreq[t][e] = 3 /\ Answer(source[t][e], 3) \in Transient => ~Fetched(t, e)

\* C7, amended: at most 4 HTTP attempts per fetch (the first and up to 3
\* retries); an attempt is followed by another only when it was answered
\* with a transient status or ended in a connection error or timeout; the
\* fetch fails when the fourth attempt ends like that.
C7_FourAttempts ==
  \A t \in Rows, e \in Exts :
    /\ nreq[t][e] <= 4
    /\ \A j \in 1..(nreq[t][e] - 1) : Answer(source[t][e], j) \in Transient \cup {0}
    /\ ext[t] = e /\ pc[t] = "get" /\ nreq[t][e] > 0
       => Answer(source[t][e], nreq[t][e]) \in Transient \cup {0}
    /\ nreq[t][e] = 4 /\ Answer(source[t][e], 4) \in Transient \cup {0}
       => ~Fetched(t, e) /\ (ext[t] = e => pc[t] = "unlink")

\* A fetch has made its fourth attempt, got 503 again and failed.
C7_Witness ==
  \E t \in Rows :
    /\ pc[t] = "unlink"
    /\ nreq[t][ext[t]] = 4
    /\ Answer(source[t][ext[t]], 4) = 503

\* No local failure can keep an attempt whose fetch succeeded from publishing.
SoundDisk == faults \subseteq {"unlink"}

\* C8: when the source answers an extension 503, 503, 200 the fetch makes
\* exactly 3 attempts, the task returns True on that extension, and no
\* later extension is ever requested.
C8_TwoRetriesThenOk ==
  \A t \in Rows, e \in Exts :
    source[t][e] = <<503, 503, 200>> /\ SoundDisk =>
      /\ nreq[t][e] <= 3
      /\ \A d \in Exts : d > e => nreq[t][d] = 0
      /\ nreq[t][e] > 0 /\ pc[t] \in {"cleanup", "done"}
         => ret[t] = "true" /\ ext[t] = e /\ nreq[t][e] = 3

\* A task is done, having succeeded on an extension that answered 503,
\* 503, 200, after earlier extensions were missing.
C8_Witness ==
  \E t \in Rows, e \in Exts :
    /\ e > 1
    /\ source[t][e] = <<503, 503, 200>>
    /\ pc[t] = "done"
    /\ ret[t] = "true"
    /\ nreq[t][e] = 3

\* C9: an extension answered 404 gets exactly one HTTP attempt; the fetch
\* fails, and the task goes on to fetch the next extension.
C9_NotFoundOnce ==
  \A t \in Rows, e \in Exts :
    Answer(source[t][e], 1) = 404 =>
      /\ nreq[t][e] <= 1
      /\ nreq[t][e] = 1 /\ ext[t] = e => pc[t] = "unlink" /\ ret[t] = "none"
      /\ nreq[t][e] = 1 /\ e < Len(fallback_exts) /\ pc[t] = "done" /\ "raise" \notin faults
         => nreq[t][e + 1] > 0

\* A task is done that got 404 for its first extension, after one attempt,
\* and then fetched the second.
C9_Witness ==
  \E t \in Rows :
    /\ pc[t] = "done"
    /\ Answer(source[t][1], 1) = 404
    /\ nreq[t][1] = 1
    /\ nreq[t][2] > 0

\* C10: with a source that has only png, a task makes one attempt for
\* jpeg, one for jpg, one for png, none for webp, and returns True.
C10_OnlyPngThreeFetches ==
  \A t \in Rows :
    source[t] = OnlyPng /\ SoundDisk =>
      /\ nreq[t][1] + nreq[t][2] + nreq[t][3] + nreq[t][4] <= 3
      /\ pc[t] = "done" =>
           /\ ret[t] = "true"
           /\ nreq[t] = <<1, 1, 1, 0>>
           /\ fallback_exts[ext[t]] = <<"p", "n", "g">>

\* A task whose source has only png is done and has returned True.
C10_Witness ==
  \E t \in Rows :
    /\ source[t] = OnlyPng
    /\ SoundDisk
    /\ pc[t] = "done"
    /\ ret[t] = "true"

\* The locator, as the claim reads it: "photos" is one of its segments and
\* another segment follows it.
Marked(u) ==
  LET parts == split(strip(u))
  IN  \E i \in 1..Len(parts) : parts[i] = <<"photos">> /\ i < Len(parts)

\* The rows of the manifest whose locator lacks the marker.
Unmarked == {t \in Rows : ~Marked(data[t][1])}

\* C11: a row without the marker is skipped: it gets no task and adds to
\* neither count; the tasks are exactly the marked rows the submit loop has
\* passed, each counted once; and when main reports, ok + fail is the
\* number of rows minus the number of skipped rows.
C11_SkippedUncounted ==
  /\ tasks = {t \in Rows \ Unmarked : t < row}
  /\ \A t \in Unmarked : pc[t] = "idle" /\ idx[t] = 0 /\ t \notin counted
  /\ counted \subseteq tasks
  /\ ok + fail = Cardinality(counted)
  /\ mpc = "reported" => ok + fail = Len(data) - Cardinality(Unmarked)

\* main has reported on a manifest of two rows, one of which ends with
\* the "photos" segment and was skipped.
C11_Witness ==
  /\ mpc = "reported"
  /\ Len(data) = 2
  /\ \E t \in Unmarked : data[t][1] = LocPhotosLast
  /\ ok + fail = 1

\* C12: main reports only when every submitted task has run to its end
\* and has been counted; a queued task leaves the queue only by being
\* started, a task ends only through its outer finally, and within a run
\* no task is taken back, whatever the other tasks returned.
C12_ReportAfterAll ==
  /\ [](mpc = "reported" => \A t \in tasks : pc[t] = "done" /\ t \in counted)
  /\ [][run' = run =>
          /\ tasks \subseteq tasks'
          /\ \A t \in tasks :
               /\ pc[t] = "queued" => pc'[t] \in {"queued", "lock"}
               /\ pc[t] # "done" /\ pc'[t] = "done" => pc[t] = "cleanup"
               /\ pc[t] \notin {"queued", "done"} => pc'[t] \notin {"idle", "queued"}
               /\ pc[t] = "done" => pc'[t] = "done" /\ ret'[t] = ret[t]]_vars

\* main has reported after one task returned False and a task submitted
\* after it returned True.
C12_Witness ==
  /\ mpc = "reported"
  /\ \E t, u \in tasks : t < u /\ ret[t] = "false" /\ ret[u] = "true"

\* C13: fail is the number of collected tasks that returned False or
\* raised, and ok of those that returned True, so that a task that raised
\* is counted as failed once; collecting it leaves main in its loop, and
\* main reports only with every such task counted.
C13_FaultCountedFailed ==
  /\ [](/\ fail = Cardinality({t \in counted : ret[t] \in {"false", "raise"}})
        /\ ok = Cardinality({t \in counted : ret[t] = "true"})
        /\ mpc = "reported" => \A t \in tasks : ret[t] = "raise" => t \in counted)
  /\ [][\A t \in tasks :
          ret[t] = "raise" /\ t \notin counted /\ t \in counted'
          => fail' = fail + 1 /\ ok' = ok /\ mpc' = "collect"]_vars

\* main has reported one success and one failure, the failure being a
\* task that raised.
C13_Witness ==
  /\ mpc = "reported"
  /\ ok = 1
  /\ fail = 1
  /\ \E t, u \in tasks : ret[t] = "raise" /\ ret[u] = "true"

\* The temporary download paths task t draws in this run.
Downloads(t) == {tmp_dl(t, k) : k \in Exts}

\* C14: when a task has ended, with True, False or an exception, and no
\* unlink can fail, none of its temporary download files and no .part
\* file of its own is left in the output directory.
C14_NoStagingLeft ==
  \A t \in tasks :
    pc[t] = "done" /\ "unlink" \notin faults =>
      /\ Downloads(t) \cap DOMAIN fs = {}
      /\ atomic_part(t) \notin DOMAIN fs

\* A task has ended with an exception after an attempt whose im.save or
\* rename failed, on a disk whose unlinks work.
C14_Witness ==
  \E t \in tasks :
    /\ pc[t] = "done"
    /\ ret[t] = "raise"
    /\ nreq[t][1] > 0
    /\ faults = FaultKinds \ {"unlink"}

\* The calls of next for the slug c that have returned, and those inside
\* the with block that have incremented.
Returned(c) == {t \in Indexed : cls(t) = c}
Incremented(c) == {t \in Rows : pc[t] = "ret" /\ cls(t) = c}

\* C15: for every slug, the values next has returned are 1..n, n being the
\* number of calls that returned, and the stored counter is n plus the
\* call that has incremented and not yet returned; a call returns one more
\* than the number of calls that returned before it; within a process a
\* counter only goes up, by one, in a call for its own slug.
C15_NextCountsPerSlug ==
  /\ [](\A t \in Rows :
          LET c == cls(t)
          IN  /\ {idx[u] : u \in Returned(c)} = 1..Cardinality(Returned(c))
              /\ Count(c) = Cardinality(Returned(c)) + Cardinality(Incremented(c)))
  /\ [][run' = run =>
          /\ \A t \in Rows :
               idx[t] = 0 /\ idx'[t] # 0
               => idx'[t] = Cardinality(Returned(cls(t))) + 1
          /\ \A c \in DOMAIN counts :
               /\ c \in DOMAIN counts'
               /\ counts'[c] >= counts[c]
               /\ counts'[c] # counts[c] =>
                    /\ counts'[c] = counts[c] + 1
                    /\ \E t \in Rows : pc[t] = "incr" /\ pc'[t] = "ret" /\ cls(t) = c
          /\ \A c \in DOMAIN counts' \ DOMAIN counts :
               /\ counts'[c] = 1
               /\ \E t \in Rows : pc[t] = "incr" /\ pc'[t] = "ret" /\ cls(t) = c]_vars

\* Two tasks with different slugs have both got the ordinal 1, and both
\* counters stand at 1.
C15_Witness ==
  \E t, u \in Indexed :
    /\ cls(t) # cls(u)
    /\ idx[t] = 1
    /\ idx[u] = 1
    /\ Count(cls(t)) = 1
    /\ Count(cls(u)) = 1

\* C16 as stated (unlinks that fail apart): when the attempt for a later
\* extension starts, neither a download of an earlier attempt nor the
\* .part file is in the directory.
C16_AttemptDiscarded ==
  \A t \in Rows :
    pc[t] = "get" /\ ext[t] > 1 /\ "unlink" \notin faults =>
      /\ \A k \in 1..(ext[t] - 1) : tmp_dl(t, k) \notin DOMAIN fs
      /\ atomic_part(t) \notin DOMAIN fs

\* C16, amended: unless an unlink fails, the download of a failed attempt
\* is gone before the next attempt starts; the .part file belongs to the
\* task, a failed attempt may leave it behind, and the next conversion
\* starts it anew.
C16_DownloadDiscarded ==
  /\ [](\A t \in Rows :
          pc[t] \in {"loop", "get", "convert", "saving", "rename"}
          /\ "unlink" \notin faults =>
            \A k \in Exts : tmp_dl(t, k) \in DOMAIN fs => k = ext[t] /\ pc[t] # "loop")
  /\ [][\A t \in Rows :
          pc[t] = "convert" /\ pc'[t] = "saving"
          => fs'[atomic_part(t)] = Content(FALSE, run)]_vars

\* The attempt for the second extension is converting while the .part
\* file of the first attempt, completely written, is still there.
C16_Witness ==
  \E t \in Rows :
    /\ pc[t] = "convert"
    /\ ext[t] = 2
    /\ "unlink" \notin faults
    /\ atomic_part(t) \in DOMAIN fs
    /\ fs[atomic_part(t)].whole
    /\ tmp_dl(t, 1) \notin DOMAIN fs

\* The staging paths task t may write: its downloads and its .part file.
Staging(t) == Downloads(t) \cup {atomic_part(t)}

\* C17: within a run the staging paths of two tasks are disjoint, and a
\* step that changes what is at a staging path of a task is a step of
\* that task.
C17_StagingDisjoint ==
  /\ [](\A t, u \in Indexed : t < u => Staging(t) \cap Staging(u) = {})
  /\ [][\A p \in DOMAIN fs \cup DOMAIN fs' :
          ~Untouched(p) =>
            \A t \in Indexed \cap InFlight : p \in Staging(t) => pc'[t] # pc[t]]_vars

\* Two tasks with the same slug have each a half-written .part file in the
\* directory.
C17_Witness ==
  \E t, u \in Indexed :
    /\ t # u
    /\ cls(t) = cls(u)
    /\ pc[t] = "saving"
    /\ pc[u] = "saving"
    /\ {atomic_part(t), atomic_part(u)} \subseteq DOMAIN fs

\* C18: a task holds the lock exactly while it is between the entry and
\* the exit of the with block of next, so at most one task is there and
\* none holds it during a fetch, a conversion, a rename or an unlink; the
\* counter map is written, and read into idx, only by the holder.
C18_LockOnlyInNext ==
  /\ [](\A t \in Rows : lock = t <=> pc[t] \in {"incr", "ret"})
  /\ [][run' = run =>
          /\ counts' # counts => lock # 0 /\ pc[lock] = "incr" /\ lock' = lock
          /\ \A t \in Rows : idx'[t] # idx[t] => lock = t /\ pc[t] = "ret"]_vars

\* One task is inside next, holding the lock, while another writes its
\* .part file.
C18_Witness ==
  \E t, u \in Rows :
    /\ lock = t
    /\ pc[t] = "incr"
    /\ pc[u] = "saving"

\* C19: a row without a task has no ordinal; a task has its ordinal before
\* its first HTTP attempt and keeps it to its end; the counter of a slug is
\* the number of its tasks that have incremented it; and when a task has
\* ended without success, no other task has its slug and ordinal and the
\* run has published no file of that slug and ordinal.
C19_OrdinalConsumed ==
  /\ [](/\ \A t \in Rows \ tasks : idx[t] = 0
        /\ \A t \in tasks :
             /\ (\E e \in Exts : nreq[t][e] > 0) \/ pc[t] \in {"loop", "get", "done"}
                => idx[t] # 0
             /\ Count(cls(t)) =
                  Cardinality({u \in SameSlug(cls(t)) : pc[u] \notin {"queued", "lock", "incr"}})
             /\ pc[t] = "done" /\ ret[t] # "true" =>
                  /\ \A u \in tasks \ {t} : cls(u) = cls(t) => idx[u] # idx[t]
                  /\ LET p == FinalName(cls(t), idx[t])
                     IN  p \in DOMAIN fs => fs[p].run < run)
  /\ [][run' = run =>
          \A t \in Rows : idx[t] # 0 => idx'[t] = idx[t]]_vars

\* A task has failed holding ordinal 1, and the other task of its slug has
\* published under ordinal 2.
C19_Witness ==
  \E t, u \in tasks :
    /\ cls(t) = cls(u)
    /\ pc[t] = "done"
    /\ ret[t] = "false"
    /\ idx[t] = 1
    /\ pc[u] = "done"
    /\ ret[u] = "true"
    /\ idx[u] = 2
    /\ FinalName(cls(t), 1) \notin DOMAIN fs

\* The tasks that wait: for a pool thread, or for the lock of the indexer.
Waiting == {t \in Rows : pc[t] \in {"queued", "lock"}}

\* C20: under fair scheduling a run of main that has not reported yet
\* comes to report, with every submitted task at its end; and whenever
\* tasks wait for a pool thread or for the lock, a time comes at which
\* each of them has got it.
C20_AllComplete ==
  /\ (mpc # "reported") ~> (mpc = "reported" /\ \A t \in tasks : pc[t] = "done")
  /\ (Waiting # {}) ~> (Waiting = {})

\* main has reported on two tasks that had one pool thread between them.
C20_Witness ==
  /\ mpc = "reported"
  /\ workers = 1
  /\ Cardinality(tasks) = 2
  /\ \A t \in tasks : pc[t] = "done"

====
